---- MODULE Spec2Model ----
(***************************************************************************)
(* A model of cetar (CURL execution timing analyzer): the transfer yields  *)
(* raw header bytes, raw body bytes and six cumulative durations           *)
(* (network.rs send_request), Stat::try_from parses them, handle_output    *)
(* writes the body to a file and Screen::display renders the report        *)
(* (output.rs, main.rs execute).                                           *)
(*                                                                         *)
(* Text is a sequence of one-symbol strings.  "CR" and "LF" stand for the  *)
(* bytes 0x0D and 0x0A, "xC3" "xA9" "x9F" "xFF" for the bytes 0xC3 0xA9    *)
(* 0x9F 0xFF, "U+00E9" "U+00C9" "U+00DF" "U+FFFD" for the characters of    *)
(* those code points;                                                      *)
(* every other symbol is the ASCII character it shows.                     *)
(* A Duration is a natural number of ticks, TicksPerMs ticks to the        *)
(* millisecond.  Option<T> is a sequence: <<>> is None, <<x>> is Some(x).  *)
(***************************************************************************)
EXTENDS Integers, Sequences, FiniteSets, TLC

VARIABLES pc, conf, wire, upload, response_headers, response_body, stat, file, screen

vars == <<pc, conf, wire, upload, response_headers, response_body, stat, file, screen>>

\* ------------------------------------------------------------ bounds
MaxT == 3
TicksPerMs == 2
MaxBodyPieces == 4
MaxLinePieces == 4
MaxKeyLen == 52
MaxKeyPieces == 4
MaxBuf == 2
MaxUploadLen == 3

\* ------------------------------------------------------------ Option
None == <<>>

Some(x) == <<x>>

IsSome(o) == o # <<>>

\* ------------------------------------------------------------ text helpers
\* the least index from `from` on at which sub occurs in s, 0 if there is none
FindFrom(s, sub, from) ==
    LET at == {i \in from..(Len(s) - Len(sub) + 1) : SubSeq(s, i, i + Len(sub) - 1) = sub}
    IN  IF at = {} THEN 0 ELSE CHOOSE i \in at : \A j \in at : i <= j

\* str::find: index (1-based) of the first occurrence of sub in s, None if absent
StrFind(s, sub) ==
    LET i == FindFrom(s, sub, 1) IN IF i = 0 THEN None ELSE Some(i)

\* str::split_once(c): the text before and after the first c, None if there is no c
SplitOnce(s, c) ==
    LET i == FindFrom(s, <<c>>, 1)
    IN  IF i = 0 THEN None
        ELSE Some(<<SubSeq(s, 1, i - 1), SubSeq(s, i + 1, Len(s))>>)

\* str::split(c): every piece between occurrences of c, empty pieces kept
RECURSIVE Split(_, _)
Split(s, c) ==
    LET i == FindFrom(s, <<c>>, 1)
    IN  IF i = 0 THEN <<s>>
        ELSE <<SubSeq(s, 1, i - 1)>> \o Split(SubSeq(s, i + 1, Len(s)), c)

StartsWith(s, p) == Len(s) >= Len(p) /\ SubSeq(s, 1, Len(p)) = p

\* char::is_whitespace, on the symbols of the model
IsWhitespace(c) == c \in {" ", "TAB", "CR", "LF"}

RECURSIVE TrimStart(_)
TrimStart(s) ==
    IF s # <<>> /\ IsWhitespace(Head(s)) THEN TrimStart(Tail(s)) ELSE s

RECURSIVE TrimEnd(_)
TrimEnd(s) ==
    IF s # <<>> /\ IsWhitespace(s[Len(s)]) THEN TrimEnd(SubSeq(s, 1, Len(s) - 1)) ELSE s

\* str::trim
Trim(s) == TrimEnd(TrimStart(s))

LowerLetters ==
    <<"a", "b", "c", "d", "e", "f", "g", "h", "i", "j", "k", "l", "m",
      "n", "o", "p", "q", "r", "s", "t", "u", "v", "w", "x", "y", "z">>

UpperLetters ==
    <<"A", "B", "C", "D", "E", "F", "G", "H", "I", "J", "K", "L", "M",
      "N", "O", "P", "Q", "R", "S", "T", "U", "V", "W", "X", "Y", "Z">>

\* the one-character uppercase mapping, on the symbols of the model
UpperChar(c) ==
    CASE c = "h" -> "H" [] c = "t" -> "T" [] c = "p" -> "P" [] c = "k" -> "K"
      [] c \in {"H", "T", "P", "/", " ", ":", "CR", "LF", "0", "1", "2", "."} -> c
      [] c = "U+00E9" -> "U+00C9"
      [] \E i \in 1..26 : LowerLetters[i] = c ->
            UpperLetters[CHOOSE i \in 1..26 : LowerLetters[i] = c]
      [] OTHER -> c

\* char::to_uppercase: the uppercase of one character may be several
\* characters (U+00DF becomes "SS")
to_uppercase(c) == IF c = "U+00DF" THEN <<"S", "S">> ELSE <<UpperChar(c)>>

\* str::to_uppercase
RECURSIVE ToUppercase(_)
ToUppercase(s) ==
    IF Len(s) = 0 THEN <<>>
    ELSE IF Len(s) = 1 THEN to_uppercase(s[1])
    ELSE LET half == Len(s) \div 2
         IN  ToUppercase(SubSeq(s, 1, half)) \o ToUppercase(SubSeq(s, half + 1, Len(s)))

\* str::replace(['\r', '\n'], "")
StripCRLF(s) == SelectSeq(s, LAMBDA c : c \notin {"CR", "LF"})

\* str::lines: split at LF, one CR before the LF dropped, no line after a final LF
RECURSIVE Lines(_)
Lines(s) ==
    IF s = <<>> THEN <<>>
    ELSE LET i == FindFrom(s, <<"LF">>, 1)
         IN  IF i = 0 THEN <<s>>
             ELSE LET l == SubSeq(s, 1, i - 1)
                      line == IF l # <<>> /\ l[Len(l)] = "CR"
                              THEN SubSeq(l, 1, Len(l) - 1) ELSE l
                  IN  <<line>> \o Lines(SubSeq(s, i + 1, Len(s)))

\* ------------------------------------------------------------ UTF-8
IsContinuation(b) == b \in {"xA9", "x9F"}

IsLead2(b) == b = "xC3"

IsAsciiByte(b) == b \notin {"xC3", "xA9", "x9F", "xFF"}

\* the character of the two-byte sequence <<lead, cont>>
Char2(lead, cont) == IF cont = "x9F" THEN "U+00DF" ELSE "U+00E9"

\* whether the byte at i is the second byte of a two-byte sequence (a lead byte
\* is never a continuation byte, so the byte before decides)
IsSecondByte(bs, i) == i > 1 /\ IsContinuation(bs[i]) /\ IsLead2(bs[i - 1])

\* whether bs is well-formed UTF-8
Utf8Valid(bs) ==
    \A i \in 1..Len(bs) :
        \/ IsAsciiByte(bs[i])
        \/ IsSecondByte(bs, i)
        \/ IsLead2(bs[i]) /\ i < Len(bs) /\ IsContinuation(bs[i + 1])

\* String::from_utf8_lossy: every invalid sequence becomes U+FFFD
from_utf8_lossy(bs) ==
    LET decoded == [i \in 1..Len(bs) |->
                      IF IsAsciiByte(bs[i]) THEN <<bs[i]>>
                      ELSE IF IsSecondByte(bs, i) THEN <<>>
                      ELSE IF IsLead2(bs[i]) /\ i < Len(bs) /\ IsContinuation(bs[i + 1])
                           THEN <<Char2(bs[i], bs[i + 1])>>
                      ELSE <<"U+FFFD">>]
        kept == SelectSeq(decoded, LAMBDA c : c # <<>>)
    IN  [i \in 1..Len(kept) |-> kept[i][1]]

\* from_utf8 that never fails (a lossy decode in its place)
from_utf8_never_fails(bs) == Some(from_utf8_lossy(bs))

\* std::str::from_utf8: Some(text) for well-formed bytes, None for Err(Utf8Error)
from_utf8(bs) == IF Utf8Valid(bs) THEN Some(from_utf8_lossy(bs)) ELSE None

\* ------------------------------------------------------------ i32 parsing
I32Max == 2147483647

IsDigit(c) == c \in {"0", "1", "2", "3", "4", "5", "6", "7", "8", "9"}

DigitVal(c) ==
    CASE c = "0" -> 0 [] c = "1" -> 1 [] c = "2" -> 2 [] c = "3" -> 3 [] c = "4" -> 4
      [] c = "5" -> 5 [] c = "6" -> 6 [] c = "7" -> 7 [] c = "8" -> 8 [] c = "9" -> 9

\* checked accumulation of the digits ds onto acc, towards +I32Max (neg = FALSE)
\* or towards -I32Max - 1 (neg = TRUE); None on overflow
RECURSIVE Accumulate(_, _, _)
Accumulate(ds, acc, neg) ==
    IF ds = <<>> THEN Some(acc)
    ELSE LET d == DigitVal(Head(ds))
         IN  IF neg
             THEN IF acc < -(I32Max \div 10) \/ (acc = -(I32Max \div 10) /\ d > 8)
                  THEN None ELSE Accumulate(Tail(ds), acc * 10 - d, neg)
             ELSE IF acc > I32Max \div 10 \/ (acc = I32Max \div 10 /\ d > 7)
                  THEN None ELSE Accumulate(Tail(ds), acc * 10 + d, neg)

\* str::parse::<i32>().ok(): an optional sign, then one or more digits, within i32
ParseI32(tok) ==
    IF tok = <<>> THEN None
    ELSE LET signed == Head(tok) \in {"+", "-"}
             ds == IF signed THEN Tail(tok) ELSE tok
         IN  IF ds = <<>> \/ (\E i \in 1..Len(ds) : ~IsDigit(ds[i])) THEN None
             ELSE Accumulate(ds, 0, Head(tok) = "-")

\* ------------------------------------------------------------ Header
\* char::to_lowercase, on the symbols of the model
LowerChar(c) ==
    IF \E i \in 1..26 : UpperLetters[i] = c
    THEN LowerLetters[CHOOSE i \in 1..26 : UpperLetters[i] = c]
    ELSE IF c = "U+00C9" THEN "U+00E9" ELSE c

\* the closure of header_key applied to one word
TrainWord(word) ==
    IF word = <<>> THEN <<>>
    ELSE to_uppercase(word[1]) \o [i \in 1..(Len(word) - 1) |-> LowerChar(word[i + 1])]

RECURSIVE Join(_, _)
Join(words, sep) ==
    IF Len(words) = 0 THEN <<>>
    ELSE IF Len(words) = 1 THEN words[1]
    ELSE words[1] \o <<sep>> \o Join(Tail(words), sep)

\* Header::header_key
header_key(key) ==
    LET words == Split(key, "-")
    IN  Join([i \in 1..Len(words) |-> TrainWord(words[i])], "-")

\* ------------------------------------------------------------ Stat
\* Duration - Duration.  Rust panics when rhs > lhs; the model keeps the
\* negative difference, so an underflow shows as a negative duration.
DurationSub(lhs, rhs) == lhs - rhs

\* Duration::as_millis: whole milliseconds, the rest dropped
as_millis(d) == d \div TicksPerMs

dns_lookup(s) == Some(s.name_lookup)

\* tcp_handshake with the comparison weakened to "differs"
tcp_handshake_ne(s) ==
    IF s.connect # s.name_lookup THEN Some(DurationSub(s.connect, s.name_lookup)) ELSE None

tcp_handshake(s) ==
    IF s.connect > s.name_lookup THEN Some(DurationSub(s.connect, s.name_lookup)) ELSE None

\* tls_handshake with the comparison weakened to "differs"
tls_handshake_ne(s) ==
    IF s.app_connect # s.connect THEN Some(DurationSub(s.app_connect, s.connect)) ELSE None

\* tls_handshake with the comparison weakened to "not before"
tls_handshake_ge(s) ==
    IF s.app_connect >= s.connect THEN Some(DurationSub(s.app_connect, s.connect)) ELSE None

tls_handshake(s) ==
    IF s.app_connect > s.connect THEN Some(DurationSub(s.app_connect, s.connect)) ELSE None

\* called server_processing by output.rs
waiting(s) ==
    IF s.start_transfer > s.pre_transfer
    THEN Some(DurationSub(s.start_transfer, s.pre_transfer)) ELSE None

\* data_transfer measured from pre_transfer, overlapping the waiting interval
data_transfer_from_pre(s) ==
    IF s.total > s.pre_transfer THEN Some(DurationSub(s.total, s.pre_transfer)) ELSE None

\* called content_transfer by output.rs
data_transfer(s) ==
    IF s.total > s.start_transfer THEN Some(DurationSub(s.total, s.start_transfer)) ELSE None

CRLFCRLF == <<"CR", "LF", "CR", "LF">>

\* utf8_response_body cutting at the last separator instead of the first
utf8_response_body_rfind(s) ==
    IF s.response_body = <<>> THEN None
    ELSE LET raw == from_utf8_lossy(s.response_body)
             at == {i \in 1..(Len(raw) - 3) : SubSeq(raw, i, i + 3) = CRLFCRLF}
             index == IF at # {} THEN (CHOOSE i \in at : \A j \in at : j <= i) + 4 ELSE 1
         IN  Some(SubSeq(raw, index, Len(raw)))

utf8_response_body(s) ==
    IF s.response_body = <<>> THEN None
    ELSE LET raw == from_utf8_lossy(s.response_body)
             found == StrFind(raw, CRLFCRLF)
             \* .map(|i| i + 4).unwrap_or_default(), as a 1-based position
             index == IF IsSome(found) THEN found[1] + 4 ELSE 1
         IN  Some(SubSeq(raw, index, Len(raw)))

\* ------------------------------------------------------------ Stat::try_from
HTTP_SLASH == <<"H", "T", "T", "P", "/">>

\* .lines().map(|line| line.replace(['\r', '\n'], "")).filter(|line| !line.is_empty())
raw_headers(text) ==
    LET ls == Lines(text)
    IN  SelectSeq([i \in 1..Len(ls) |-> StripCRLF(ls[i])], LAMBDA l : l # <<>>)

\* StatusLine starting the list of headers afresh at every status line
StatusLine_reset_headers(acc, header) ==
    LET so == SplitOnce(header, "/")
    IN  IF IsSome(so)
        THEN LET tail == Split(so[1][2], " ")
             IN  [acc EXCEPT
                    !.headers = <<>>,
                    !.response_code = IF Len(tail) >= 2 THEN ParseI32(tail[2]) ELSE None,
                    !.http_version = IF Len(tail) >= 1 THEN Some(tail[1]) ELSE None]
        ELSE acc

\* StatusLine keeping the code of an earlier status line when this one has none
StatusLine_keep_code(acc, header) ==
    LET so == SplitOnce(header, "/")
    IN  IF IsSome(so)
        THEN LET tail == Split(so[1][2], " ")
                 code == IF Len(tail) >= 2 THEN ParseI32(tail[2]) ELSE None
             IN  [acc EXCEPT
                    !.response_code = IF code = None THEN @ ELSE code,
                    !.http_version = IF Len(tail) >= 1 THEN Some(tail[1]) ELSE None]
        ELSE acc

\* StatusLine with the empty tokens between consecutive spaces dropped
StatusLine_skip_empty(acc, header) ==
    LET so == SplitOnce(header, "/")
    IN  IF IsSome(so)
        THEN LET tail == SelectSeq(Split(so[1][2], " "), LAMBDA t : t # <<>>)
             IN  [acc EXCEPT
                    !.response_code = IF Len(tail) >= 2 THEN ParseI32(tail[2]) ELSE None,
                    !.http_version = IF Len(tail) >= 1 THEN Some(tail[1]) ELSE None]
        ELSE acc

\* the status-line branch of the loop of try_from
StatusLine(acc, header) ==
    LET so == SplitOnce(header, "/")
    IN  IF IsSome(so)
        THEN LET tail == Split(so[1][2], " ")
             IN  [acc EXCEPT
                    !.response_code = IF Len(tail) >= 2 THEN ParseI32(tail[2]) ELSE None,
                    !.http_version = IF Len(tail) >= 1 THEN Some(tail[1]) ELSE None]
        ELSE acc

\* HeaderLine splitting at the last ':' instead of the first
HeaderLine_rsplit(acc, header) ==
    LET at == {i \in 1..Len(header) : header[i] = ":"}
    IN  IF at # {}
        THEN LET i == CHOOSE i \in at : \A j \in at : j <= i
             IN  [acc EXCEPT !.headers =
                    Append(@, [key |-> Trim(SubSeq(header, 1, i - 1)),
                               value |-> Trim(SubSeq(header, i + 1, Len(header)))])]
        ELSE acc

\* the header-line branch of the loop of try_from
HeaderLine(acc, header) ==
    LET so == SplitOnce(header, ":")
    IN  IF IsSome(so)
        THEN [acc EXCEPT !.headers =
                Append(@, [key |-> Trim(so[1][1]), value |-> Trim(so[1][2])])]
        ELSE acc

\* one iteration of the loop of try_from
ParseLine(acc, header) ==
    IF StartsWith(ToUppercase(header), HTTP_SLASH)
    THEN StatusLine(acc, header)
    ELSE HeaderLine(acc, header)

RECURSIVE ParseLines(_, _)
ParseLines(acc, ls) ==
    IF ls = <<>> THEN acc ELSE ParseLines(ParseLine(acc, Head(ls)), Tail(ls))

\* Stat::try_from(handle): None for Err (the header bytes are not UTF-8), else Some(Stat)
try_from(handle) ==
    LET text == from_utf8(handle.response_headers)
    IN  IF ~IsSome(text) THEN None
        ELSE LET p == ParseLines([headers |-> <<>>, http_version |-> None,
                                  response_code |-> None], raw_headers(text[1]))
             IN  Some([ip_address |-> handle.primary_ip,
                       http_version |-> p.http_version,
                       response_status_code |-> p.response_code,
                       response_headers |-> p.headers,
                       name_lookup |-> handle.name_lookup,
                       connect |-> handle.connect,
                       app_connect |-> handle.app_connect,
                       pre_transfer |-> handle.pre_transfer,
                       start_transfer |-> handle.start_transfer,
                       total |-> handle.total,
                       response_body |-> handle.response_body])

\* ------------------------------------------------------------ NetworkEvent
Event(name, duration) == [name |-> name, duration |-> duration]

\* Option::map over a derived interval
MapEvent(o, name) == IF IsSome(o) THEN Some(Event(name, o[1])) ELSE None

NetworkEvent_dns_lookup(s) == MapEvent(dns_lookup(s), "DNS Lookup")

\* NetworkEvent::tcp_handshake that reports an absent interval as 0 (unwrap_or_default)
NetworkEvent_tcp_handshake_always(s) ==
    Some(Event("TCP Handshake", IF IsSome(tcp_handshake(s)) THEN tcp_handshake(s)[1] ELSE 0))

NetworkEvent_tcp_handshake(s) == MapEvent(tcp_handshake(s), "TCP Handshake")

NetworkEvent_tls_handshake(s) == MapEvent(tls_handshake(s), "TLS Handshake")

NetworkEvent_server_processing(s) == MapEvent(waiting(s), "Server Processing")

NetworkEvent_content_transfer(s) == MapEvent(data_transfer(s), "Content Transfer")

NetworkEvent_total(s) == Some(Event("Total", s.total))

NetworkEvent_name_lookup(s) == Some(Event("Name Lookup", s.name_lookup))

NetworkEvent_connect(s) == Some(Event("Connect", s.connect))

\* NetworkEvent::app_connect showing the TLS interval instead of the raw timestamp
NetworkEvent_app_connect_interval(s) ==
    IF IsSome(tls_handshake(s)) THEN Some(Event("App Connect", tls_handshake(s)[1])) ELSE None

NetworkEvent_app_connect(s) ==
    IF IsSome(tls_handshake(s)) THEN Some(Event("App Connect", s.app_connect)) ELSE None

NetworkEvent_pre_transfer(s) == Some(Event("Pre Transfer", s.pre_transfer))

NetworkEvent_start_transfer(s) == Some(Event("Start Transfer", s.start_transfer))

\* ------------------------------------------------------------ Screen
PADDING == 35
MAX_PADDING == 50

\* scale_factor with exclusive upper ends of the ranges
scale_factor_exclusive(s) ==
    LET ms == as_millis(s.total)
    IN  IF ms < 100 THEN 1
        ELSE IF ms < 500 THEN 5
        ELSE IF ms < 1000 THEN 10
        ELSE IF ms < 5000 THEN 50
        ELSE IF ms < 10000 THEN 100
        ELSE 1000

\* the divisor of the bar chart (an f64 in the source, always a whole number)
scale_factor(s) ==
    LET ms == as_millis(s.total)
    IN  IF ms <= 100 THEN 1
        ELSE IF ms <= 500 THEN 5
        ELSE IF ms <= 1000 THEN 10
        ELSE IF ms <= 5000 THEN 50
        ELSE IF ms <= 10000 THEN 100
        ELSE 1000

\* event_bar rounding to the nearest whole number of glyphs
event_bar_round(s, event) ==
    (2 * as_millis(event.duration) + scale_factor(s)) \div (2 * scale_factor(s))

\* the number of glyphs of the bar: (duration_ms as f64 / scale) as usize
event_bar(s, event) == as_millis(event.duration) \div scale_factor(s)

\* iter().flatten(): the present elements, in order
RECURSIVE Flatten(_)
Flatten(opts) ==
    IF opts = <<>> THEN <<>>
    ELSE IF IsSome(Head(opts)) THEN <<Head(opts)[1]>> \o Flatten(Tail(opts))
    ELSE Flatten(Tail(opts))

\* one printed line per present event
display_events(s, events) ==
    LET evs == Flatten(events)
    IN  [i \in 1..Len(evs) |->
            [kind |-> "event", name |-> evs[i].name, bar |-> event_bar(s, evs[i]),
             duration_ms |-> as_millis(evs[i].duration), width |-> PADDING]]

Title(text) == [kind |-> "title", text |-> text]

Blank == [kind |-> "blank"]

display_network_timings(s) ==
    <<Title("Network Timings:")>> \o
    display_events(s, <<NetworkEvent_dns_lookup(s), NetworkEvent_tcp_handshake(s),
                        NetworkEvent_tls_handshake(s), NetworkEvent_server_processing(s),
                        NetworkEvent_content_transfer(s)>>)

display_detailed_timings(s) ==
    <<Title("Detailed Timings:")>> \o
    display_events(s, <<NetworkEvent_name_lookup(s), NetworkEvent_connect(s),
                        NetworkEvent_app_connect(s), NetworkEvent_pre_transfer(s),
                        NetworkEvent_start_transfer(s), NetworkEvent_total(s)>>)

\* the UTF-8 length of one character
Utf8Len(c) ==
    IF c \in {"U+00E9", "U+00C9", "U+00DF"} THEN 2 ELSE IF c = "U+FFFD" THEN 3 ELSE 1

\* str::len: the length in bytes
StrLen(str) ==
    LET width == [i \in 1..Len(str) |-> Utf8Len(str[i])]
    IN  Len(str) + Cardinality({i \in 1..Len(str) : width[i] >= 2})
                 + Cardinality({i \in 1..Len(str) : width[i] >= 3})

\* the column width without the upper clamp
HeaderWidth_no_max(s) ==
    LET lens == {StrLen(s.response_headers[i].key) : i \in 1..Len(s.response_headers)}
        max_name_len == IF lens = {} THEN PADDING
                        ELSE CHOOSE m \in lens : \A l \in lens : l <= m
    IN  IF max_name_len < PADDING THEN PADDING ELSE max_name_len

\* the column width of the headers section
HeaderWidth(s) ==
    LET lens == {StrLen(s.response_headers[i].key) : i \in 1..Len(s.response_headers)}
        max_name_len == IF lens = {} THEN PADDING
                        ELSE CHOOSE m \in lens : \A l \in lens : l <= m
    IN  IF max_name_len > MAX_PADDING THEN MAX_PADDING
        ELSE IF max_name_len < PADDING THEN PADDING
        ELSE max_name_len

display_response_headers(s) ==
    <<Blank,
      [kind |-> "status",
       version |-> IF IsSome(s.http_version) THEN s.http_version[1]
                   ELSE <<"U", "n", "k", "n", "o", "w", "n">>,
       code |-> IF IsSome(s.response_status_code) THEN s.response_status_code[1] ELSE 0]>>
    \o [i \in 1..Len(s.response_headers) |->
          [kind |-> "header", key |-> header_key(s.response_headers[i].key),
           value |-> s.response_headers[i].value, width |-> HeaderWidth(s)]]

display_response_body(s) ==
    LET body == utf8_response_body(s)
    IN  IF IsSome(body)
        THEN <<Title("Response Body:"), Blank, [kind |-> "body", text |-> body[1]]>>
        ELSE <<>>

\* display printing the body section before the headers section
display_body_first(c, s) ==
    <<Blank,
      [kind |-> "connect",
       ip |-> IF IsSome(s.ip_address) THEN s.ip_address[1] ELSE "Unknown"],
      Blank>>
    \o display_network_timings(s)
    \o <<Blank>>
    \o display_detailed_timings(s)
    \o (IF c.display_response_body THEN <<Blank>> \o display_response_body(s) ELSE <<>>)
    \o (IF c.display_response_headers THEN <<Blank>> \o display_response_headers(s) ELSE <<>>)

\* Screen::display: every line printed, in order
display(c, s) ==
    <<Blank,
      [kind |-> "connect",
       ip |-> IF IsSome(s.ip_address) THEN s.ip_address[1] ELSE "Unknown"],
      Blank>>
    \o display_network_timings(s)
    \o <<Blank>>
    \o display_detailed_timings(s)
    \o (IF c.display_response_headers THEN <<Blank>> \o display_response_headers(s) ELSE <<>>)
    \o (IF c.display_response_body THEN <<Blank>> \o display_response_body(s) ELSE <<>>)

\* handle_output: the text written to the output file, None when no file is written
handle_output(c, s) ==
    IF c.output /\ IsSome(utf8_response_body(s)) THEN utf8_response_body(s) ELSE None

\* ------------------------------------------------------------ the program
\* the handle after easy.perform(): the two buffers and what curl reports
Handle ==
    [response_headers |-> response_headers, response_body |-> response_body,
     primary_ip |-> wire.primary_ip, name_lookup |-> wire.name_lookup,
     connect |-> wire.connect, app_connect |-> wire.app_connect,
     pre_transfer |-> wire.pre_transfer, start_transfer |-> wire.start_transfer,
     total |-> wire.total]

\* Decorator::read with a buffer of n bytes: the bytes copied into the buffer.
\* d.as_bytes() is a new slice of the whole body at every call, and reading
\* advances that slice only.
read(c, n) ==
    IF IsSome(c.request_body)
    THEN LET d == c.request_body[1]
         IN  SubSeq(d, 1, IF n < Len(d) THEN n ELSE Len(d))
    ELSE <<>>

\* send_request: the methods whose request body the engine asks the read
\* callback for (Patch and Put behave as Post does)
Uploads(c) == c.method = "Post"

\* the bytes the engine still expects: post_field_size when there is a body
Remaining == Len(conf.request_body[1]) - Len(upload.sent)

\* the engine needs nothing more from the read callback
UploadDone ==
    \/ ~Uploads(conf)
    \/ upload.eof
    \/ IsSome(conf.request_body) /\ Remaining <= 0

\* one read callback during easy.perform(): the engine offers a buffer of up to
\* MaxBuf bytes, no longer than what it still expects when the size is known,
\* and takes what Decorator::read copies; a return of 0 ends the upload
Read ==
    /\ pc = "start"
    /\ ~UploadDone
    /\ \E n \in 1..MaxBuf :
          /\ IsSome(conf.request_body) => n <= Remaining
          /\ upload' = [sent |-> upload.sent \o read(conf, n), eof |-> read(conf, n) = <<>>]
    /\ UNCHANGED <<pc, conf, wire, response_headers, response_body, stat, file, screen>>

\* send_request up to easy.perform()?: the transfer fails, or the request body was
\* handed over and Decorator::header and Decorator::write have appended every
\* byte received to the two buffers
Perform ==
    /\ pc = "start"
    /\ \/ /\ UploadDone
          /\ pc' = "performed"
          /\ response_headers' = response_headers \o wire.headers
          /\ response_body' = response_body \o wire.body
       \/ /\ pc' = "error"
          /\ UNCHANGED <<response_headers, response_body>>
    /\ UNCHANGED <<conf, wire, upload, stat, file, screen>>

\* send_request's Stat::try_from(&mut easy), and the ? of execute on its result
TryFrom ==
    /\ pc = "performed"
    /\ LET r == try_from(Handle)
       IN  \/ /\ IsSome(r)
              /\ stat' = r
              /\ pc' = "stat"
           \/ /\ ~IsSome(r)
              /\ stat' = None
              /\ pc' = "error"
    /\ UNCHANGED <<conf, wire, upload, response_headers, response_body, file, screen>>

\* execute: handle_output(&config, &result)?; File::create or write_all may fail
HandleOutput ==
    /\ pc = "stat"
    /\ \/ /\ file' = handle_output(conf, stat[1])
          /\ pc' = "output"
       \/ /\ IsSome(handle_output(conf, stat[1]))
          /\ file' = None
          /\ pc' = "error"
    /\ UNCHANGED <<conf, wire, upload, response_headers, response_body, stat, screen>>

\* display() that takes the body out of the Stat while printing it
Display_takes_body ==
    /\ pc = "output"
    /\ screen' = display(conf, stat[1])
    /\ stat' = <<[stat[1] EXCEPT !.response_body = <<>>]>>
    /\ pc' = "done"
    /\ UNCHANGED <<conf, wire, upload, response_headers, response_body, file>>

\* execute: Screen::new(&config, &result).display()
Display ==
    /\ pc = "output"
    /\ screen' = display(conf, stat[1])
    /\ pc' = "done"
    /\ UNCHANGED <<conf, wire, upload, response_headers, response_body, stat, file>>

Next == Read \/ Perform \/ TryFrom \/ HandleOutput \/ Display

\* ------------------------------------------------------------ inputs
\* every sequence over S of length at most n
SeqsUpTo(S, n) == UNION {[1..k -> S] : k \in 0..n}

RECURSIVE Concat(_)
Concat(pieces) == IF pieces = <<>> THEN <<>> ELSE Head(pieces) \o Concat(Tail(pieces))

CRLF == <<"CR", "LF">>

\* "HTTP/1.1 200 OK\r\nk: v\r\n\r\n"
DefaultHeaders ==
    <<"H", "T", "T", "P", "/", "1", ".", "1", " ", "2", "0", "0", " ", "O", "K">> \o CRLF
    \o <<"k", ":", " ", "v">> \o CRLF \o CRLF

DefaultBody == <<"a">>

DefaultWire ==
    [headers |-> DefaultHeaders, body |-> DefaultBody, primary_ip |-> Some("127.0.0.1"),
     name_lookup |-> 1, connect |-> 2, app_connect |-> 3, pre_transfer |-> 4,
     start_transfer |-> 5, total |-> 6, tls |-> TRUE]

DefaultConf ==
    [output |-> TRUE, display_response_headers |-> TRUE, display_response_body |-> TRUE,
     method |-> "Get", request_body |-> None]

Configs ==
    [output : BOOLEAN, display_response_headers : BOOLEAN, display_response_body : BOOLEAN,
     method : {"Get"}, request_body : {None}]

\* two requests with a read callback: no body, and a body of two bytes
BaseUploads ==
    {[DefaultConf EXCEPT !.method = "Post"],
     [DefaultConf EXCEPT !.method = "Post", !.request_body = Some(<<"a", "b">>)]}

\* a transfer without TLS cannot report a positive TLS interval, one with TLS
\* cannot report app_connect before connect
TlsConsistent(w) ==
    IF w.tls THEN w.app_connect >= w.connect ELSE w.app_connect <= w.connect

\* a few transfers that take every branch of the program
BaseWires ==
    {DefaultWire,
     [DefaultWire EXCEPT !.headers = <<"xFF">> \o DefaultHeaders],
     [DefaultWire EXCEPT !.body = <<>>, !.primary_ip = None],
     [DefaultWire EXCEPT !.headers = <<>>, !.body = DefaultHeaders \o <<"a", "xFF">>],
     [DefaultWire EXCEPT !.app_connect = 0, !.tls = FALSE,
                         !.headers = <<"k", "e", "y">> \o CRLF]}

InitState(w, c) ==
    /\ pc = "start"
    /\ wire = w
    /\ conf = c
    /\ upload = [sent |-> <<>>, eof |-> FALSE]
    /\ response_headers = <<>>
    /\ response_body = <<>>
    /\ stat = None
    /\ file = None
    /\ screen = <<>>

InitBase ==
    \/ \E w \in BaseWires, c \in Configs : InitState(w, c)
    \/ \E c \in BaseUploads : InitState(DefaultWire, c)

Init == InitBase

Spec == Init /\ [][Next]_vars

\* --- the six cumulative timestamps, in any order
TimingWires ==
    {w \in {[DefaultWire EXCEPT !.name_lookup = t[1], !.connect = t[2],
                                !.app_connect = t[3], !.pre_transfer = t[4],
                                !.start_transfer = t[5], !.total = t[6], !.tls = b] :
              t \in [1..6 -> 0..MaxT], b \in BOOLEAN} : TlsConsistent(w)}

InitTimings == InitBase \/ \E w \in TimingWires : InitState(w, DefaultConf)

SpecTimings == InitTimings /\ [][Next]_vars

\* --- response bodies: up to MaxBodyPieces pieces, each a byte or a CRLF
BodyPieces == {CRLF, <<"a">>, <<"xFF">>, <<"CR">>, <<"LF">>, <<"xC3">>, <<"xA9">>}

BodyWires ==
    {[DefaultWire EXCEPT !.body = Concat(ps)] : ps \in SeqsUpTo(BodyPieces, MaxBodyPieces)}

InitBody == InitBase \/ \E w \in BodyWires : InitState(w, DefaultConf)

SpecBody == InitBody /\ [][Next]_vars

\* --- header blobs: one line of up to MaxLinePieces pieces, alone or between the
\* first block of a redirect chain and further lines, and some blobs picked by hand
LinePieces ==
    {<<"H", "T", "T", "P", "/", "1", ".", "1">>, <<"h", "t", "t", "p", "/", "2">>,
     <<" ">>, <<"2", "0", "0">>, <<":">>, <<"k">>}

\* "HTTP/1.0 301\r\nv: k\r\n\r\n"
FirstBlock ==
    <<"H", "T", "T", "P", "/", "1", ".", "0", " ", "3", "0", "1">> \o CRLF
    \o <<"v", ":", " ", "k">> \o CRLF \o CRLF

\* "\r\nk: v\r\njunk\r\n\r\n"
MoreLines ==
    CRLF \o <<"k", ":", " ", "v">> \o CRLF \o <<"j", "u", "n", "k">> \o CRLF \o CRLF

HTTP11 == <<"H", "T", "T", "P", "/", "1", ".", "1", " ">>

EdgeHeaders ==
    {HTTP11 \o <<"2", "0", "0">> \o CRLF \o <<"xFF">>,
     HTTP11 \o <<"+", "2", "0", "0">> \o <<"LF">> \o <<"k", ":", "v">> \o <<"LF">>,
     HTTP11 \o <<"-", "1">> \o CRLF,
     HTTP11 \o <<"2", "1", "4", "7", "4", "8", "3", "6", "4", "7">> \o CRLF,
     HTTP11 \o <<"2", "1", "4", "7", "4", "8", "3", "6", "4", "8">> \o CRLF,
     HTTP11 \o <<"-", "2", "1", "4", "7", "4", "8", "3", "6", "4", "8">> \o CRLF,
     HTTP11 \o <<"2", "0", "0", "TAB", "O", "K">> \o CRLF,
     <<" ", "k", "TAB", ":", "TAB", "v", " ">> \o CRLF,
     <<"k", "CR", ":", "v", "CR", "CR", "LF">>,
     <<"xC3", "xA9", ":", "v">> \o CRLF,
     <<"xC3", ":", "v">> \o CRLF,
     <<"h", "T", "t", "P", "/", "2", " ", "2", "0", "0">>,
     <<"H", "T", "T", "P", "/">> \o CRLF,
     <<"H", "T", "T", "P", ":", "/", "1">> \o CRLF,
     <<" ", "H", "T", "T", "P", "/", "1", " ", "2", ":", "3">> \o CRLF}

HeaderBlobs ==
    {pre \o Concat(ps) \o suf :
        pre \in {<<>>, FirstBlock}, suf \in {<<>>, MoreLines},
        ps \in SeqsUpTo(LinePieces, MaxLinePieces)}
    \cup EdgeHeaders

HeaderWires == {[DefaultWire EXCEPT !.headers = h] : h \in HeaderBlobs}

InitHeaders == InitBase \/ \E w \in HeaderWires : InitState(w, DefaultConf)

SpecHeaders == InitHeaders /\ [][Next]_vars

\* --- totals around every boundary of the scale table, with events up to the total
ScaleTotalsMs ==
    {0, 1, 50, 99, 100, 101, 250, 499, 500, 501, 999, 1000, 1001, 4999, 5000, 5001,
     9999, 10000, 10001, 20000, 100000, 100001, 200000}

ScaleTotals == {ms * TicksPerMs + sub : ms \in ScaleTotalsMs, sub \in 0..(TicksPerMs - 1)}

EventSamples(total) ==
    {0, TicksPerMs - 1, TicksPerMs, total \div 3, total \div 2, total - 1, total}
    \cap 0..total

ScaleWires ==
    UNION {{[DefaultWire EXCEPT !.name_lookup = e, !.connect = e, !.app_connect = e,
                                !.pre_transfer = e, !.start_transfer = e, !.total = t] :
              e \in EventSamples(t)} : t \in ScaleTotals}

InitScale == InitBase \/ \E w \in ScaleWires : InitState(w, DefaultConf)

SpecScale == InitScale /\ [][Next]_vars

\* --- header blobs of up to two header lines, the keys of lengths around both
\* clamps of the column width, with and without a leading two-byte character
KeyLens == {0, 1, 33, 34, 35, 36, 48, 49, 50, 51, MaxKeyLen}

KeyBytes(n, accent) ==
    (IF accent THEN <<"xC3", "xA9">> ELSE <<>>) \o [i \in 1..n |-> "k"]

WidthLines == {KeyBytes(n, a) \o <<":", "v">> \o CRLF : n \in KeyLens, a \in BOOLEAN}

WidthWires ==
    {[DefaultWire EXCEPT !.headers = Concat(ls)] : ls \in SeqsUpTo(WidthLines, 2)}

InitWidth == InitBase \/ \E w \in WidthWires : InitState(w, DefaultConf)

SpecWidth == InitWidth /\ [][Next]_vars

\* --- header blobs of one header line, the key built of up to MaxKeyPieces
\* pieces: letters of both cases, the hyphen, and two two-byte characters
KeyPieces == {<<"k">>, <<"K">>, <<"-">>, <<"xC3", "xA9">>, <<"xC3", "x9F">>}

KeyWires ==
    {[DefaultWire EXCEPT
         !.headers = HTTP11 \o <<"2", "0", "0">> \o CRLF
                     \o Concat(ps) \o <<":", "v">> \o CRLF \o CRLF] :
       ps \in SeqsUpTo(KeyPieces, MaxKeyPieces)}

InitKeys == InitBase \/ \E w \in KeyWires : InitState(w, DefaultConf)

SpecKeys == InitKeys /\ [][Next]_vars

\* --- request bodies of up to MaxUploadLen bytes, with and without a method
\* that uploads
UploadBodies == {None} \cup {Some(d) : d \in SeqsUpTo({"a", "b"}, MaxUploadLen)}

UploadConfs ==
    {[DefaultConf EXCEPT !.method = m, !.request_body = d] :
        m \in {"Get", "Post"}, d \in UploadBodies}

InitUpload == InitBase \/ \E c \in UploadConfs : InitState(DefaultWire, c)

SpecUpload == InitUpload /\ [][Next]_vars

\* ------------------------------------------------------------ claims
\* the interval between two cumulative timestamps, as the claims state it
Interval(earlier, later) == IF later > earlier THEN Some(later - earlier) ELSE None

\* C1: for every Stat, tcp_handshake, tls_handshake, waiting and data_transfer are
\* Some(later - earlier) when later > earlier and None otherwise, for timestamps in
\* any order; a present interval is never negative (the subtraction never underflows).
C1_Intervals ==
    IsSome(stat) =>
        LET s == stat[1]
        IN  /\ tcp_handshake(s) = Interval(s.name_lookup, s.connect)
            /\ tls_handshake(s) = Interval(s.connect, s.app_connect)
            /\ waiting(s) = Interval(s.pre_transfer, s.start_transfer)
            /\ data_transfer(s) = Interval(s.start_transfer, s.total)
            /\ \A r \in {tcp_handshake(s), tls_handshake(s), waiting(s), data_transfer(s)} :
                   IsSome(r) => r[1] >= 0

\* a Stat whose timestamps decrease (connect before name_lookup, start_transfer
\* before pre_transfer) next to an interval that is present
C1_Witness ==
    /\ IsSome(stat)
    /\ stat[1].connect < stat[1].name_lookup
    /\ stat[1].start_transfer < stat[1].pre_transfer
    /\ tcp_handshake(stat[1]) = None
    /\ waiting(stat[1]) = None
    /\ data_transfer(stat[1]) = Some(2)

\* C2 as stated: tls_handshake() is None exactly when app_connect = connect, and
\* Some(d) with d > 0 whenever app_connect differs from connect, in either direction.
C2_Original ==
    IsSome(stat) =>
        LET s == stat[1]
        IN  /\ (tls_handshake(s) = None) <=> (s.app_connect = s.connect)
            /\ s.app_connect # s.connect =>
                   IsSome(tls_handshake(s)) /\ tls_handshake(s)[1] > 0

\* C2 amended: tls_handshake() is None exactly when app_connect <= connect, and is
\* Some(app_connect - connect), a positive duration, exactly when app_connect > connect.
C2_TlsHandshake ==
    IsSome(stat) =>
        LET s == stat[1]
        IN  /\ (tls_handshake(s) = None) <=> (s.app_connect <= s.connect)
            /\ s.app_connect > s.connect =>
                   tls_handshake(s) = Some(s.app_connect - s.connect)
            /\ IsSome(tls_handshake(s)) => tls_handshake(s)[1] > 0

\* app_connect before connect (curl reports 0 for a transfer without TLS): absent
C2_Witness ==
    /\ IsSome(stat)
    /\ stat[1].app_connect < stat[1].connect
    /\ tls_handshake(stat[1]) = None

\* C3 as stated: a report whose TLS phase was measured as exactly 0 ms and a report
\* of a transfer without TLS that is otherwise the same never have the same
\* tls_handshake() result.
C3_Original ==
    (IsSome(stat) /\ wire.tls /\ stat[1].app_connect = stat[1].connect) =>
        \A a \in 0..stat[1].connect :
            tls_handshake([stat[1] EXCEPT !.app_connect = a]) # tls_handshake(stat[1])

\* C3 amended: tls_handshake() is None both for a transfer without a TLS phase and
\* for one whose TLS phase was measured as exactly 0 ms (app_connect = connect), so
\* the two are not told apart; a present result is a positive duration and occurs
\* only for a transfer that had a TLS phase.
C3_AbsenceCoversZero ==
    IsSome(stat) =>
        LET s == stat[1]
        IN  /\ s.app_connect = s.connect => tls_handshake(s) = None
            /\ ~wire.tls => tls_handshake(s) = None
            /\ IsSome(tls_handshake(s)) => wire.tls /\ tls_handshake(s)[1] > 0

\* a transfer with a TLS phase of exactly 0 ms, reported as absent
C3_Witness ==
    /\ IsSome(stat)
    /\ wire.tls
    /\ stat[1].app_connect = stat[1].connect
    /\ stat[1].connect > 0
    /\ tls_handshake(stat[1]) = None

\* C4: utf8_response_body() is None iff response_body is empty; for a non-empty body
\* it is Some: the whole lossily decoded text when that holds no CR LF CR LF, else
\* exactly what follows the first CR LF CR LF (later ones stay; possibly empty).
C4_ResponseBody ==
    IsSome(stat) =>
        LET s == stat[1]
            r == utf8_response_body(s)
            text == from_utf8_lossy(s.response_body)
            at == {i \in 1..(Len(text) - 3) : SubSeq(text, i, i + 3) = CRLFCRLF}
        IN  /\ (r = None) <=> (s.response_body = <<>>)
            /\ (s.response_body # <<>> /\ at = {}) => r = Some(text)
            /\ (s.response_body # <<>> /\ at # {}) =>
                   \E i \in at : /\ \A j \in at : i <= j
                                 /\ r = Some(SubSeq(text, i + 4, Len(text)))

\* an invalid byte, then separators at two places: the cut is after the first
C4_Witness ==
    /\ IsSome(stat)
    /\ stat[1].response_body = <<"xFF">> \o CRLF \o CRLF \o CRLF
    /\ utf8_response_body(stat[1]) = Some(CRLF)

\* the lines of the header blob as try_from iterates over them
ParsedLines == raw_headers(from_utf8(response_headers)[1])

IsStatusLine(l) ==
    /\ Len(l) >= 5
    /\ l[1] \in {"H", "h"} /\ l[2] \in {"T", "t"} /\ l[3] \in {"T", "t"}
    /\ l[4] \in {"P", "p"} /\ l[5] = "/"

\* C5: a non-empty line beginning with HTTP/ (any case) is the status line: of the
\* text after the first '/', split on single spaces, the first token is
\* http_version and the second is response_status_code when it parses as an
\* integer, None otherwise (no second token, not a number, empty token).
C5_StatusLine ==
    IsSome(stat) =>
        LET ls == ParsedLines
            at == {i \in 1..Len(ls) : IsStatusLine(ls[i])}
        IN  IF at = {}
            THEN stat[1].http_version = None /\ stat[1].response_status_code = None
            ELSE LET l == ls[CHOOSE i \in at : \A j \in at : j <= i]
                     tokens == Split(SubSeq(l, 6, Len(l)), " ")
                 IN  /\ stat[1].http_version = Some(tokens[1])
                     /\ stat[1].response_status_code =
                            IF Len(tokens) >= 2 THEN ParseI32(tokens[2]) ELSE None

\* "HTTP/1.1  200": the second token is the empty one between the two spaces
C5_Witness ==
    /\ IsSome(stat)
    /\ response_headers = HTTP11 \o <<" ", "2", "0", "0">>
    /\ stat[1].http_version = Some(<<"1", ".", "1">>)
    /\ stat[1].response_status_code = None

\* the header a line with a ':' stands for
HeaderOf(l) ==
    LET i == CHOOSE i \in 1..Len(l) : l[i] = ":" /\ \A j \in 1..(i - 1) : l[j] # ":"
    IN  [key |-> Trim(SubSeq(l, 1, i - 1)), value |-> Trim(SubSeq(l, i + 1, Len(l)))]

\* C6: every non-empty, non-status line with a ':' gives exactly one header, key and
\* value the trimmed text before and after the first ':'; a line without ':' gives
\* none and no error; response_headers keeps wire order and duplicates.
C6_HeaderLines ==
    IsSome(stat) =>
        LET all == ParsedLines
            ls == SelectSeq(all,
                            LAMBDA l : ~IsStatusLine(l) /\ \E i \in 1..Len(l) : l[i] = ":")
            hs == stat[1].response_headers
        IN  /\ Len(hs) = Len(ls)
            /\ \A i \in 1..Len(ls) : hs[i] = HeaderOf(ls[i])

\* three header lines of two response blocks, a repeated key, a value with a colon,
\* and a line without a colon that is skipped
C6_Witness ==
    /\ IsSome(stat)
    /\ response_headers = FirstBlock \o <<"k", ":", "k", ":">> \o MoreLines
    /\ stat[1].response_headers =
         <<[key |-> <<"v">>, value |-> <<"k">>],
           [key |-> <<"k">>, value |-> <<"k", ":">>],
           [key |-> <<"k">>, value |-> <<"v">>]>>

\* C7: no partial output: when the header bytes are not valid UTF-8, Stat
\* construction fails, no Stat exists, no file is written and nothing is rendered;
\* the file and the report only ever exist after a Stat was built.
C7_NoPartialOutput ==
    /\ ~Utf8Valid(wire.headers) =>
          /\ stat = None /\ file = None /\ screen = <<>>
          /\ pc \in {"start", "performed", "error"}
    /\ (pc \in {"stat", "output", "done"} \/ file # None \/ screen # <<>>) =>
          IsSome(stat) /\ Utf8Valid(response_headers)

\* the run ended in the error of try_from, with an output file and every section asked for
C7_Witness ==
    /\ pc = "error"
    /\ response_headers # <<>>
    /\ ~Utf8Valid(response_headers)
    /\ conf.output /\ conf.display_response_headers /\ conf.display_response_body
    /\ response_body # <<>>
    /\ stat = None /\ file = None /\ screen = <<>>

\* C8: scale_factor() depends only on total in whole milliseconds and follows the
\* table: 0..100 -> 1, 101..500 -> 5, 501..1000 -> 10, 1001..5000 -> 50,
\* 5001..10000 -> 100, above -> 1000; it never decreases as total grows.
C8_ScaleFactor ==
    IsSome(stat) =>
        LET s == stat[1]
            ms == s.total \div TicksPerMs
            f == scale_factor(s)
        IN  /\ ms \in 0..100 => f = 1
            /\ ms \in 101..500 => f = 5
            /\ ms \in 501..1000 => f = 10
            /\ ms \in 1001..5000 => f = 50
            /\ ms \in 5001..10000 => f = 100
            /\ ms > 10000 => f = 1000
            /\ f = scale_factor([s EXCEPT !.total = ms * TicksPerMs])
            /\ \A t \in ScaleTotals :
                   t <= s.total => scale_factor([s EXCEPT !.total = t]) <= f

\* a total just beyond 100 ms that is not a whole number of milliseconds
C8_Witness ==
    /\ IsSome(stat)
    /\ stat[1].total = 101 * TicksPerMs + 1
    /\ scale_factor(stat[1]) = 5

\* the printed lines of the events, in order
EventRows(rows) == SelectSeq(rows, LAMBDA r : r.kind = "event")

\* C9: every bar has floor(duration_ms / scale_factor()) glyphs: an event shorter
\* than one divisor unit has an empty bar, and with total <= 100 ms the bar is as
\* long as the event's whole milliseconds.
C9_EventBar ==
    pc = "done" =>
        LET f == scale_factor(stat[1])
            rows == EventRows(screen)
        IN  \A i \in 1..Len(rows) :
                /\ rows[i].bar * f <= rows[i].duration_ms
                /\ rows[i].duration_ms < (rows[i].bar + 1) * f
                /\ rows[i].duration_ms < f => rows[i].bar = 0
                /\ as_millis(stat[1].total) <= 100 => rows[i].bar = rows[i].duration_ms

\* total 250 ms (divisor 5): 1 ms of DNS lookup has no glyph, 249 ms of transfer 49
C9_Witness ==
    /\ pc = "done"
    /\ as_millis(stat[1].total) = 250
    /\ \E i \in 1..Len(screen) :
          /\ screen[i].kind = "event"
          /\ screen[i].name = "DNS Lookup"
          /\ screen[i].duration_ms = 1
          /\ screen[i].bar = 0
    /\ \E i \in 1..Len(screen) :
          /\ screen[i].kind = "event"
          /\ screen[i].name = "Content Transfer"
          /\ screen[i].duration_ms = 249
          /\ screen[i].bar = 49

\* the leading event lines of rows
RECURSIVE TakeEvents(_)
TakeEvents(rows) ==
    IF rows # <<>> /\ Head(rows).kind = "event"
    THEN <<Head(rows)>> \o TakeEvents(Tail(rows))
    ELSE <<>>

\* the event lines printed under the given section title
SectionRows(rows, title) ==
    LET at == {i \in 1..Len(rows) : rows[i].kind = "title" /\ rows[i].text = title}
    IN  IF at = {} THEN <<>>
        ELSE TakeEvents(SubSeq(rows, (CHOOSE i \in at : \A j \in at : i <= j) + 1, Len(rows)))

RowNames(rows) == [i \in 1..Len(rows) |-> rows[i].name]

\* C10 as stated: the Network Timings section prints DNS Lookup, TCP Handshake,
\* TLS Handshake, Server Processing, Data Transfer in this order, the TLS Handshake
\* row exactly when tls_handshake() is present and the other four for every report.
C10_Original ==
    pc = "done" =>
        RowNames(SectionRows(screen, "Network Timings:")) =
            IF IsSome(tls_handshake(stat[1]))
            THEN <<"DNS Lookup", "TCP Handshake", "TLS Handshake", "Server Processing",
                   "Data Transfer">>
            ELSE <<"DNS Lookup", "TCP Handshake", "Server Processing", "Data Transfer">>

\* the row of an interval between two timestamps: none unless later > earlier
IntervalRow(name, earlier, later) ==
    IF later > earlier
    THEN <<[name |-> name, duration_ms |-> (later - earlier) \div TicksPerMs]>>
    ELSE <<>>

\* C10 amended: the Network Timings section prints, in this order, DNS Lookup,
\* TCP Handshake, TLS Handshake, Server Processing, Content Transfer; DNS Lookup is
\* printed for every report, each of the other four exactly when its interval is
\* present (later timestamp > earlier); a row shows its interval in whole ms.
C10_NetworkTimings ==
    pc = "done" =>
        LET s == stat[1]
            rows == SectionRows(screen, "Network Timings:")
        IN  [i \in 1..Len(rows) |->
                [name |-> rows[i].name, duration_ms |-> rows[i].duration_ms]]
            = <<[name |-> "DNS Lookup", duration_ms |-> s.name_lookup \div TicksPerMs]>>
              \o IntervalRow("TCP Handshake", s.name_lookup, s.connect)
              \o IntervalRow("TLS Handshake", s.connect, s.app_connect)
              \o IntervalRow("Server Processing", s.pre_transfer, s.start_transfer)
              \o IntervalRow("Content Transfer", s.start_transfer, s.total)

\* a report without a TCP and without a server-processing interval: three rows
C10_Witness ==
    /\ pc = "done"
    /\ stat[1].connect = stat[1].name_lookup
    /\ stat[1].total = 3
    /\ RowNames(SectionRows(screen, "Network Timings:")) =
           <<"DNS Lookup", "TLS Handshake", "Content Transfer">>
    /\ SectionRows(screen, "Network Timings:")[3].duration_ms = 1

\* C11: the Detailed Timings section prints, in this order, Name Lookup, Connect,
\* App Connect, Pre Transfer, Start Transfer, Total, each with the raw cumulative
\* timestamp in whole ms; App Connect is printed exactly when app_connect > connect
\* (tls_handshake() present), the other five for every report.
C11_DetailedTimings ==
    pc = "done" =>
        LET s == stat[1]
            rows == SectionRows(screen, "Detailed Timings:")
            Raw(name, t) == <<[name |-> name, duration_ms |-> t \div TicksPerMs]>>
        IN  [i \in 1..Len(rows) |->
                [name |-> rows[i].name, duration_ms |-> rows[i].duration_ms]]
            = Raw("Name Lookup", s.name_lookup)
              \o Raw("Connect", s.connect)
              \o (IF s.app_connect > s.connect THEN Raw("App Connect", s.app_connect)
                  ELSE <<>>)
              \o Raw("Pre Transfer", s.pre_transfer)
              \o Raw("Start Transfer", s.start_transfer)
              \o Raw("Total", s.total)

\* a report with TLS: six rows, App Connect shows 1 ms (3 ticks) although the
\* TLS interval (1 tick) is 0 ms
C11_Witness ==
    /\ pc = "done"
    /\ stat[1].connect = 2
    /\ stat[1].app_connect = 3
    /\ Len(SectionRows(screen, "Detailed Timings:")) = 6
    /\ SectionRows(screen, "Detailed Timings:")[3].name = "App Connect"
    /\ SectionRows(screen, "Detailed Timings:")[3].duration_ms = 1

\* the printed lines that open or make up a section, blank lines and the lines of
\* events and headers left out: the title's text for a title, the kind otherwise
Outline(rows) ==
    LET heads == SelectSeq(rows, LAMBDA r : r.kind \in {"connect", "title", "status", "body"})
    IN  [i \in 1..Len(heads) |->
            IF heads[i].kind = "title" THEN heads[i].text ELSE heads[i].kind]

\* the positions of the lines of the given kind
RowsOfKind(rows, kind) == {i \in 1..Len(rows) : rows[i].kind = kind}

\* C12: display() emits the Connect line (the IP address, "Unknown" when absent),
\* Network Timings, Detailed Timings, then the status line and headers only when
\* display_response_headers is set, then the body only when display_response_body
\* is set and utf8_response_body() is present; nothing twice or out of this order.
C12_SectionOrder ==
    /\ pc # "done" => screen = <<>>
    /\ pc = "done" =>
        LET s == stat[1]
            body == s.response_body # <<>>
        IN  /\ Outline(screen) =
                  <<"connect", "Network Timings:", "Detailed Timings:">>
                  \o (IF conf.display_response_headers THEN <<"status">> ELSE <<>>)
                  \o (IF conf.display_response_body /\ body
                      THEN <<"Response Body:", "body">> ELSE <<>>)
            /\ screen[2].kind = "connect"
            /\ screen[2].ip = IF wire.primary_ip = None THEN "Unknown" ELSE wire.primary_ip[1]
            /\ Cardinality(RowsOfKind(screen, "header")) =
                  IF conf.display_response_headers THEN Len(s.response_headers) ELSE 0
            /\ \A h \in RowsOfKind(screen, "header") :
                  /\ \E i \in RowsOfKind(screen, "status") : i < h
                  /\ \A i \in RowsOfKind(screen, "body") : h < i
                  /\ \A i \in RowsOfKind(screen, "title") : screen[i].text = "Response Body:" => h < i

\* every section was asked for and printed: status line and a header, then the body
C12_Witness ==
    /\ pc = "done"
    /\ conf.display_response_headers /\ conf.display_response_body
    /\ Outline(screen) =
          <<"connect", "Network Timings:", "Detailed Timings:", "status",
            "Response Body:", "body">>
    /\ RowsOfKind(screen, "header") # {}

\* the number of bytes of a key: one for each character, one more for each of
\* U+00E9, U+00C9 and U+00DF, two more for each U+FFFD
KeyByteLen(key) ==
    Len(key)
    + Cardinality({i \in 1..Len(key) : key[i] \in {"U+00E9", "U+00C9", "U+00DF"}})
    + 2 * Cardinality({i \in 1..Len(key) : key[i] = "U+FFFD"})

\* C13: the column width of the headers section is the length (in bytes) of the
\* longest header key clamped to [35, 50]: 35 when the longest key is shorter than
\* 35 or there are no headers, 50 when it is longer than 50, else that length.
C13_HeaderWidth ==
    IsSome(stat) =>
        LET hs == stat[1].response_headers
            lens == {KeyByteLen(hs[i].key) : i \in 1..Len(hs)}
            width == HeaderWidth(stat[1])
        IN  /\ lens = {} => width = 35
            /\ lens # {} =>
                 LET longest == CHOOSE m \in lens : \A l \in lens : l <= m
                 IN  /\ longest < 35 => width = 35
                     /\ longest > 50 => width = 50
                     /\ longest \in 35..50 => width = longest
            /\ pc = "done" =>
                 \A i \in RowsOfKind(screen, "header") : screen[i].width = width

\* keys of 1 and 36 bytes (35 characters, one of two bytes): both lines 36 wide
C13_Witness ==
    /\ pc = "done"
    /\ Len(stat[1].response_headers) = 2
    /\ Len(stat[1].response_headers[1].key) = 1
    /\ Len(stat[1].response_headers[2].key) = 35
    /\ stat[1].response_headers[2].key[1] = "U+00E9"
    /\ Cardinality(RowsOfKind(screen, "header")) = 2
    /\ \A i \in RowsOfKind(screen, "header") : screen[i].width = 36

\* the header lines of the screen, in order
HeaderRows(rows) == SelectSeq(rows, LAMBDA r : r.kind = "header")

\* the number of hyphens of a key
Hyphens(key) == Cardinality({i \in 1..Len(key) : key[i] = "-"})

\* C14: every header key is shown in Train-Case: as many hyphens as the key has,
\* as many segments, and the transform applied to what is shown changes nothing.
C14_TrainCase ==
    pc = "done" /\ conf.display_response_headers =>
        LET shown == HeaderRows(screen)
            hs == stat[1].response_headers
        IN  /\ Len(shown) = Len(hs)
            /\ \A i \in 1..Len(shown) :
                   /\ Hyphens(shown[i].key) = Hyphens(hs[i].key)
                   /\ Len(Split(shown[i].key, "-")) = Len(Split(hs[i].key, "-"))
                   /\ header_key(shown[i].key) = shown[i].key

C16_LastStatusLineWins ==
    IsSome(stat) =>
        LET ls == ParsedLines
            at == {i \in 1..Len(ls) : IsStatusLine(ls[i])}
        IN  Cardinality(at) >= 2 =>
                LET last == ls[CHOOSE i \in at : \A j \in at : j <= i]
                    tokens == Split(SubSeq(last, 6, Len(last)), " ")
                    code == IF Len(tokens) >= 2 THEN ParseI32(tokens[2]) ELSE None
                IN  /\ stat[1].http_version = Some(tokens[1])
                    /\ stat[1].response_status_code = code

\* "HTTP/1.0 301" of the first block, then "http/2 k": version 2 and no code
C16_Witness ==
    /\ IsSome(stat)
    /\ response_headers = FirstBlock \o <<"h", "t", "t", "p", "/", "2", " ", "k">>
    /\ stat[1].http_version = Some(<<"2">>)
    /\ stat[1].response_status_code = None

\* C17: the bar of every event that lasts no longer than the whole request has
\* at most 100 glyphs, whatever the total.
C17_BarBounded ==
    pc = "done" =>
        LET rows == EventRows(screen)
        IN  \A i \in 1..Len(rows) :
                rows[i].duration_ms <= as_millis(stat[1].total) => rows[i].bar <= 100

\* the length of an interval, an absent one counted as 0
OrZero(d) == IF IsSome(d) THEN d[1] ELSE 0

\* the sum of the five intervals of a Stat
IntervalSum(s) ==
    OrZero(dns_lookup(s)) + OrZero(tcp_handshake(s)) + OrZero(tls_handshake(s))
    + OrZero(waiting(s)) + OrZero(data_transfer(s))

NonDecreasing(s) ==
    /\ 0 <= s.name_lookup /\ s.name_lookup <= s.connect /\ s.connect <= s.app_connect
    /\ s.app_connect <= s.pre_transfer /\ s.pre_transfer <= s.start_transfer
    /\ s.start_transfer <= s.total

\* C18: with non-decreasing timestamps the five intervals sum to
\* total - (pre_transfer - app_connect): never more than total, and exactly
\* total when pre_transfer = app_connect.
C18_IntervalSum ==
    IsSome(stat) /\ NonDecreasing(stat[1]) =>
        LET s == stat[1]
        IN  /\ IntervalSum(s) = s.total - (s.pre_transfer - s.app_connect)
            /\ IntervalSum(s) <= s.total
            /\ IntervalSum(s) = s.total <=> s.pre_transfer = s.app_connect

\* a gap between app_connect and pre_transfer that no interval covers, with a
\* waiting interval before the data transfer
C18_Witness ==
    /\ IsSome(stat)
    /\ NonDecreasing(stat[1])
    /\ stat[1].app_connect < stat[1].pre_transfer
    /\ IsSome(tcp_handshake(stat[1]))
    /\ IsSome(waiting(stat[1]))
    /\ IsSome(data_transfer(stat[1]))
    /\ IntervalSum(stat[1]) = stat[1].total - 1

HasColon(l) == \E i \in 1..Len(l) : l[i] = ":"

\* the headers of the lines with a ':' among ls, status lines left out
HeadersOfLines(ls) ==
    LET kept == SelectSeq(ls, LAMBDA l : HasColon(l) /\ ~IsStatusLine(l))
    IN  [i \in 1..Len(kept) |-> HeaderOf(kept[i])]

\* C20: the headers are not reset at a status line: response_headers holds the
\* key/value lines before the last status line followed by those after it, in
\* wire order, and no line beginning with HTTP/ is among them, with or without ':'.
C20_HeadersNeverReset ==
    IsSome(stat) =>
        LET ls == ParsedLines
            at == {i \in 1..Len(ls) : IsStatusLine(ls[i])}
            hs == stat[1].response_headers
        IN  at # {} =>
                LET last == CHOOSE i \in at : \A j \in at : j <= i
                    before == HeadersOfLines(SubSeq(ls, 1, last - 1))
                    after == HeadersOfLines(SubSeq(ls, last + 1, Len(ls)))
                IN  /\ hs = before \o after
                    /\ Len(hs) = Cardinality({i \in 1..Len(ls) : HasColon(ls[i])})
                                 - Cardinality({i \in at : HasColon(ls[i])})

\* "HTTP/1.0 301", "v: k", then "HTTP/1.1:k" (a status line with a ':'), "k: v":
\* both headers kept, none made of the second status line
C20_Witness ==
    /\ IsSome(stat)
    /\ response_headers =
          FirstBlock \o <<"H", "T", "T", "P", "/", "1", ".", "1", ":", "k">> \o MoreLines
    /\ stat[1].response_headers =
          <<[key |-> <<"v">>, value |-> <<"k">>], [key |-> <<"k">>, value |-> <<"v">>]>>
    /\ stat[1].http_version = Some(<<"1", ".", "1", ":", "k">>)
    /\ stat[1].response_status_code = None

\* whether p is a prefix of s
IsPrefix(p, s) == Len(p) <= Len(s) /\ SubSeq(s, 1, Len(p)) = p

\* C19: the read callbacks hand the request body over exactly once and in order:
\* what was delivered so far is always the beginning of request_body, the
\* whole of it once the upload is over, and nothing at all without a body.
C19_ReadDeliversBody ==
    Uploads(conf) =>
        IF IsSome(conf.request_body)
        THEN /\ IsPrefix(upload.sent, conf.request_body[1])
             /\ UploadDone /\ ~upload.eof => upload.sent = conf.request_body[1]
        ELSE upload.sent = <<>>

====
